---- MODULE Spec2Model ----
(***************************************************************************)
(* Model of the DLC oracle library (package dlcoracle): numeric message    *)
(* encoding, public key derivation, the linear signature                   *)
(* s = k - H(m || Rx) * a  and the anticipated signature public key        *)
(* P = R - H(m || Rx) * A.                                                 *)
(*                                                                         *)
(* The arithmetic is the library's, over a scaled-down instance of the     *)
(* domain parameters: the curve is y^2 = x^3 + 7 over F_43, which like     *)
(* secp256k1 has p = 3 (mod 4), a prime group order N < p and no point     *)
(* with x = 0 or y = 0; a byte holds 3 bits, a scalar is KeyLen bytes, a   *)
(* compressed point 1 + KeyLen bytes, and the hash returns KeyLen bytes,   *)
(* so that, as in the code, some byte strings are scalars >= N, some hash  *)
(* values are >= N, and big-endian encodings have leading zero bytes.      *)
(***************************************************************************)
EXTENDS Integers, Sequences, FiniteSets, TLC

\* ---------------------------------------------------------------- widths
\* bits of one byte, the literal 8 of line 166
ByteBits == 3
\* values of one byte
ByteBase == 2 ^ ByteBits
\* length of a private scalar / signature / hash, the [32]byte of the code
KeyLen == 2
\* length of a compressed public key, the [33]byte of the code
PubKeyLen == KeyLen + 1
\* bits of a scalar array, the literal 256 of line 166
ScalarBits == KeyLen * ByteBits
\* bytes binary.Write emits for one uint64
Uint64Len == 3

\* ---------------------------------------------------------------- bounds
\* longest message handed to the signing functions
MaxMsgLen == 1
\* largest spare capacity (cap - len) of a caller's message slice
MaxSpare == 2

Byte == 0..(ByteBase - 1)

RECURSIVE Pow(_, _)
Pow(b, n) == IF n = 0 THEN 1 ELSE b * Pow(b, n - 1)

RECURSIVE SeqsOfLen(_, _)
SeqsOfLen(S, n) ==
    IF n = 0 THEN {<<>>}
    ELSE {Append(s, x) : s \in SeqsOfLen(S, n - 1), x \in S}

\* all byte arrays of a fixed length
ByteArrays(n) == SeqsOfLen(Byte, n)

\* var x [n]byte
ZeroBytes(n) == [i \in 1..n |-> 0]

\* ------------------------------------------------------------- math/big
bigZero == 0

\* big.Int.SetBytes: big-endian unsigned value of a byte slice
RECURSIVE SetBytes(_)
SetBytes(b) ==
    IF Len(b) = 0 THEN 0
    ELSE SetBytes(SubSeq(b, 1, Len(b) - 1)) * ByteBase + b[Len(b)]

\* big.Int.Bytes: minimal big-endian encoding, empty for zero
RECURSIVE Bytes(_)
Bytes(n) ==
    IF n = 0 THEN <<>>
    ELSE Append(Bytes(n \div ByteBase), n % ByteBase)

\* big.Int.BitLen
RECURSIVE BitLen(_)
BitLen(n) == IF n = 0 THEN 0 ELSE 1 + BitLen(n \div 2)

\* the builtin copy(dst[off:], src): min(len(dst) - off, len(src)) bytes
CopyAt(dst, off, src) ==
    [i \in 1..Len(dst) |->
        IF i > off /\ i - off <= Len(src) THEN src[i - off] ELSE dst[i]]

\* big.Int.Exp(b, e, m)
RECURSIVE ModExp(_, _, _)
ModExp(b, e, m) ==
    IF e = 0 THEN 1 % m
    ELSE LET h == ModExp(b, e \div 2, m)
             q == (h * h) % m
         IN IF e % 2 = 1 THEN (q * b) % m ELSE q

\* -------------------------------------------------------- btcec.S256()
CurveP == 43
CurveN == 31
CurveB == 7
Gx == 2
Gy == 12

\* the point at infinity in affine big.Int form
Infinity == [X |-> 0, Y |-> 0]

FieldInv(x) == ModExp(x % CurveP, CurveP - 2, CurveP)

\* KoblitzCurve.IsOnCurve
IsOnCurve(x, y) == (y * y) % CurveP = (x * x * x + CurveB) % CurveP

\* KoblitzCurve.Add: group law on affine points, (0, 0) the identity
Add(x1, y1, x2, y2) ==
    IF x1 = 0 /\ y1 = 0 THEN [X |-> x2, Y |-> y2]
    ELSE IF x2 = 0 /\ y2 = 0 THEN [X |-> x1, Y |-> y1]
    ELSE IF x1 = x2 /\ (y1 + y2) % CurveP = 0 THEN Infinity
    ELSE LET l == IF x1 = x2
                  THEN (3 * x1 * x1 * FieldInv(2 * y1)) % CurveP
                  ELSE ((y2 - y1) * FieldInv(x2 - x1)) % CurveP
             x3 == (l * l - x1 - x2) % CurveP
         IN [X |-> x3, Y |-> (l * (x1 - x3) - y1) % CurveP]

RECURSIVE MulInt(_, _, _)
MulInt(Bx, By, k) ==
    IF k = 0 THEN Infinity
    ELSE LET h == MulInt(Bx, By, k \div 2)
             d == Add(h.X, h.Y, h.X, h.Y)
         IN IF k % 2 = 1 THEN Add(d.X, d.Y, Bx, By) ELSE d

\* KoblitzCurve.ScalarMult(Bx, By, k []byte)
ScalarMult(Bx, By, k) == MulInt(Bx, By, SetBytes(k))

\* KoblitzCurve.ScalarBaseMult(k []byte)
ScalarBaseMult(k) == ScalarMult(Gx, Gy, k)

\* PublicKey.SerializeCompressed: parity byte, then X padded to KeyLen
SerializeCompressed(P) ==
    LET format == 2 + (P.Y % 2)
        xb == Bytes(P.X)
    IN <<format>> \o CopyAt(ZeroBytes(KeyLen), KeyLen - Len(xb), xb)

\* btcec.decompressPoint
decompressPoint(x, ybit) ==
    LET x3 == x * x * x + CurveB
        y0 == ModExp(x3 % CurveP, (CurveP + 1) \div 4, CurveP)
        y == IF ybit # (y0 % 2) THEN CurveP - y0 ELSE y0
    IN IF ybit # (y % 2)
       THEN [Y |-> 0, err |-> "ybit doesn't match oddness"]
       ELSE [Y |-> y, err |-> "nil"]

\* btcec.ParsePubKey on a PubKeyLen-byte string
ParsePubKey(pubKeyStr) ==
    LET ybit == pubKeyStr[1] % 2
        format == pubKeyStr[1] - ybit
        x == SetBytes(SubSeq(pubKeyStr, 2, PubKeyLen))
        d == decompressPoint(x, ybit)
        bad(e) == [X |-> 0, Y |-> 0, err |-> e]
    IN IF format # 2 THEN bad("invalid magic in compressed pubkey string")
       ELSE IF d.err # "nil" THEN bad(d.err)
       ELSE IF x >= CurveP THEN bad("pubkey X parameter is >= to P")
       ELSE IF d.Y >= CurveP THEN bad("pubkey Y parameter is >= to P")
       ELSE IF ~IsOnCurve(x, d.Y) THEN bad("pubkey isn't on secp256k1 curve")
       ELSE [X |-> x, Y |-> d.Y, err |-> "nil"]

\* chainhash.HashB: a fixed KeyLen-byte digest of a byte string
RECURSIVE HashState(_)
HashState(b) ==
    IF Len(b) = 0 THEN 23
    ELSE LET h == HashState(SubSeq(b, 1, Len(b) - 1))
         IN (2 * h * h + h + 3 * b[Len(b)] + 1) % Pow(ByteBase, KeyLen)

HashB(b) ==
    LET v == HashState(b)
        vb == Bytes(v)
    IN CopyAt(ZeroBytes(KeyLen), KeyLen - Len(vb), vb)

\* ------------------------------------------------------ package dlcoracle
\* binary.Write(&buf, binary.BigEndian, v) for a uint64 v
PutUint64(v) ==
    [i \in 1..Uint64Len |-> (v \div Pow(ByteBase, Uint64Len - i)) % ByteBase]

\* the values of a uint64
Uint64 == 0..(Pow(ByteBase, Uint64Len) - 1)

\* faulty variant: the value is written first, the padding after it
GenerateNumericMessage_valueFirst(value) ==
    PutUint64(value) \o PutUint64(0) \o PutUint64(0) \o PutUint64(0)

GenerateNumericMessage(value) ==
    PutUint64(0) \o PutUint64(0) \o PutUint64(0) \o PutUint64(value)

PublicKeyFromPrivateKey(privateKey) ==
    LET pk == ScalarBaseMult(privateKey)
    IN CopyAt(ZeroBytes(PubKeyLen), 0, SerializeCompressed(pk))

\* the values rand.Read can leave in privKey
GenerateOneTimeSigningKey == ByteArrays(KeyLen)

\* append(message, tail...) as a value: the bytes of the resulting slice
AppendBytes(message, tail) == message \o tail

\* faulty variant: the Y coordinate of e*A is not negated
NegateY_kept(y) == y % CurveP

\* lines 86-88: A.Y.Neg(A.Y); A.Y.Mod(A.Y, curve.P)
NegateY(y) == (0 - y) % CurveP

\* lines 75-95: from the hash input to the returned point
SignaturePubKeyFromHashInput(A, R, hashInput) ==
    LET returnValue == ZeroBytes(PubKeyLen)
        e == HashB(hashInput)
        bigE == SetBytes(e)
    IN IF bigE >= CurveN
       THEN [val |-> returnValue, err |-> "hash of (msg, pubR) too big"]
       ELSE LET eA == ScalarMult(A.X, A.Y, e)
                negY == NegateY(eA.Y)
                P == Add(eA.X, negY, R.X, R.Y)
            IN [val |-> CopyAt(returnValue, 0, SerializeCompressed(P)),
                err |-> "nil"]

\* faulty variant: the error of parsing oraclePubR is dropped
ComputeSignaturePubKey_dropRErr(oraclePubA, oraclePubR, message) ==
    LET returnValue == ZeroBytes(PubKeyLen)
        A == ParsePubKey(oraclePubA)
        R == ParsePubKey(oraclePubR)
    IN IF A.err # "nil" THEN [val |-> returnValue, err |-> A.err]
       ELSE SignaturePubKeyFromHashInput(A, R,
                AppendBytes(message, Bytes(R.X)))

ComputeSignaturePubKey(oraclePubA, oraclePubR, message) ==
    LET returnValue == ZeroBytes(PubKeyLen)
        A == ParsePubKey(oraclePubA)
        R == ParsePubKey(oraclePubR)
    IN IF A.err # "nil" THEN [val |-> returnValue, err |-> A.err]
       ELSE IF R.err # "nil" THEN [val |-> returnValue, err |-> R.err]
       ELSE SignaturePubKeyFromHashInput(A, R,
                AppendBytes(message, Bytes(R.X)))

\* what ComputeSignature hands back, with its locals as they are on return
SigReturn(s, err, privKey, oneTimeSigningKey, bigPriv, bigK) ==
    [s |-> s, err |-> err, privKey |-> privKey,
     oneTimeSigningKey |-> oneTimeSigningKey,
     bigPriv |-> bigPriv, bigK |-> bigK]

\* faulty variant: s = k + e*a, as the comment of line 145 reads
SigScalar_plus(bigK, bigE, bigPriv) == (bigK + bigE * bigPriv) % CurveN

\* lines 146-151: s = k - e*a mod N
SigScalar(bigK, bigE, bigPriv) == (bigK - bigE * bigPriv) % CurveN

\* faulty variant: s is copied to the front of the array
ByteOffset_front(bigS) == 0

\* line 166: the index of the first byte of s in the returned array
ByteOffset(bigS) == (ScalarBits - BitLen(bigS)) \div ByteBits

\* lines 136-170: from the hash input to the returned signature
SignatureFromHashInput(privKey, oneTimeSigningKey, bigPriv, bigK, hashInput) ==
    LET empty == ZeroBytes(KeyLen)
        e == HashB(hashInput)
        bigE == SetBytes(e)
        bigS == SigScalar(bigK, bigE, bigPriv)
        byteOffset == ByteOffset(bigS)
    IN IF bigE >= CurveN
       THEN SigReturn(empty, "hash of (m, R) too big",
                      privKey, oneTimeSigningKey, bigPriv, bigK)
       ELSE IF bigS = bigZero
       THEN SigReturn(empty, "sig s is zero",
                      privKey, oneTimeSigningKey, bigPriv, bigK)
       ELSE SigReturn(CopyAt(empty, byteOffset, Bytes(bigS)), "nil",
                      privKey, empty, 0, 0)

\* faulty variant: the bounds are compared with > instead of >=
CheckScalars_gt(bigPriv, bigK) ==
    IF bigPriv = bigZero THEN "priv scalar is zero"
    ELSE IF bigPriv > CurveN THEN "priv scalar is out of bounds"
    ELSE IF bigK = bigZero THEN "k scalar is zero"
    ELSE IF bigK > CurveN THEN "k scalar is out of bounds"
    ELSE "nil"

\* lines 106-121: the scalar checks; "nil" when all four pass
CheckScalars(bigPriv, bigK) ==
    IF bigPriv = bigZero THEN "priv scalar is zero"
    ELSE IF bigPriv >= CurveN THEN "priv scalar is out of bounds"
    ELSE IF bigK = bigZero THEN "k scalar is zero"
    ELSE IF bigK >= CurveN THEN "k scalar is out of bounds"
    ELSE "nil"

ComputeSignature(privKey, oneTimeSigningKey, message) ==
    LET empty == ZeroBytes(KeyLen)
        bigPriv == SetBytes(privKey)
        privKey1 == empty
        bigK == SetBytes(oneTimeSigningKey)
        chk == CheckScalars(bigPriv, bigK)
        R == ScalarBaseMult(oneTimeSigningKey)
    IN IF chk # "nil"
       THEN SigReturn(empty, chk, privKey1, oneTimeSigningKey, bigPriv, bigK)
       ELSE SignatureFromHashInput(privKey1, oneTimeSigningKey, bigPriv, bigK,
                AppendBytes(message, Bytes(R.X)))

\* ------------------------------------------------------------ the callers
RECURSIVE SeqsUpTo(_, _)
SeqsUpTo(S, n) ==
    IF n = 0 THEN {<<>>} ELSE SeqsUpTo(S, n - 1) \cup SeqsOfLen(S, n)

\* the byte values messages are built from
MsgBytes == {0, ByteBase - 1}

\* the messages callers sign
Messages == SeqsUpTo(MsgBytes, MaxMsgLen)

VARIABLES
    pc,                 \* the caller's position
    privKey,            \* the oracle's long-term private scalar
    oneTimeSigningKey,  \* the one-time private scalar
    message,            \* the message to sign
    pubKey,             \* the oracle's published public key A
    rPoint,             \* the published R point
    sGFromMsg,          \* the return of ComputeSignaturePubKey
    sig,                \* the return of ComputeSignature
    sGFromSig,          \* PublicKeyFromPrivateKey(signature)
    message2,           \* a second message signed with the same one-time key
    sig2,               \* the return of that second ComputeSignature
    value,              \* the numeric outcome
    numMsg,             \* GenerateNumericMessage(value)
    mem,                \* backing array of the shared message slice
    calls               \* the concurrent calls in flight

vars == <<pc, privKey, oneTimeSigningKey, message, pubKey, rPoint, sGFromMsg,
          sig, sGFromSig, message2, sig2, value, numMsg, mem, calls>>

NoPub == ZeroBytes(PubKeyLen)
NoPubRet == [val |-> ZeroBytes(PubKeyLen), err |-> "none"]
NoSig == SigReturn(ZeroBytes(KeyLen), "none", ZeroBytes(KeyLen),
                   ZeroBytes(KeyLen), 0, 0)

signVars == <<privKey, oneTimeSigningKey, message, pubKey, rPoint, sGFromMsg,
              sig, sGFromSig, message2, sig2>>
msgVars == <<value, numMsg>>
concVars == <<mem, calls>>

\* ---- the oracle and a contract participant, one publication
\* (test-generator main, with the participant's call before the signature
\*  as the tutorial describes)
Init ==
    /\ pc = "keys"
    /\ privKey \in ByteArrays(KeyLen)
    /\ oneTimeSigningKey \in GenerateOneTimeSigningKey
    /\ message \in Messages
    /\ pubKey = NoPub /\ rPoint = NoPub
    /\ sGFromMsg = NoPubRet /\ sig = NoSig /\ sGFromSig = NoPub
    /\ message2 = <<>> /\ sig2 = NoSig
    /\ value = 0 /\ numMsg = <<>>
    /\ mem = <<>> /\ calls = <<>>

\* the oracle publishes A and R
PublishKeys ==
    /\ pc = "keys"
    /\ pubKey' = PublicKeyFromPrivateKey(privKey)
    /\ rPoint' = PublicKeyFromPrivateKey(oneTimeSigningKey)
    /\ pc' = "anticipate"
    /\ UNCHANGED <<privKey, oneTimeSigningKey, message, sGFromMsg, sig,
                   sGFromSig, message2, sig2, msgVars, concVars>>

\* a participant computes the anticipated signature public key
Anticipate ==
    /\ pc = "anticipate"
    /\ sGFromMsg' = ComputeSignaturePubKey(pubKey, rPoint, message)
    /\ pc' = "sign"
    /\ UNCHANGED <<privKey, oneTimeSigningKey, message, pubKey, rPoint, sig,
                   sGFromSig, message2, sig2, msgVars, concVars>>

\* the oracle signs; an error ends the run (panic)
Sign ==
    /\ pc = "sign"
    /\ sig' = ComputeSignature(privKey, oneTimeSigningKey, message)
    /\ pc' = IF sig'.err = "nil" THEN "settle" ELSE "panic"
    /\ UNCHANGED <<privKey, oneTimeSigningKey, message, pubKey, rPoint,
                   sGFromMsg, sGFromSig, message2, sig2, msgVars, concVars>>

\* the public key of the published signature
Settle ==
    /\ pc = "settle"
    /\ sGFromSig' = PublicKeyFromPrivateKey(sig.s)
    /\ pc' = "reuse"
    /\ UNCHANGED <<privKey, oneTimeSigningKey, message, pubKey, rPoint,
                   sGFromMsg, sig, message2, sig2, msgVars, concVars>>

\* the oracle signs another message with the same one-time key
SignAgain ==
    /\ pc = "reuse"
    /\ \E m2 \in Messages :
        /\ message2' = m2
        /\ sig2' = ComputeSignature(privKey, oneTimeSigningKey, m2)
    /\ pc' = "done"
    /\ UNCHANGED <<privKey, oneTimeSigningKey, message, pubKey, rPoint,
                   sGFromMsg, sig, sGFromSig, msgVars, concVars>>

Next == PublishKeys \/ Anticipate \/ Sign \/ Settle \/ SignAgain

Spec == Init /\ [][Next]_vars

\* ---- a participant calling ComputeSignaturePubKey on arbitrary buffers
InitPub ==
    /\ pc = "call"
    /\ pubKey \in ByteArrays(PubKeyLen)
    /\ rPoint \in ByteArrays(PubKeyLen)
    /\ message \in Messages
    /\ privKey = ZeroBytes(KeyLen) /\ oneTimeSigningKey = ZeroBytes(KeyLen)
    /\ sGFromMsg = NoPubRet /\ sig = NoSig /\ sGFromSig = NoPub
    /\ message2 = <<>> /\ sig2 = NoSig
    /\ value = 0 /\ numMsg = <<>>
    /\ mem = <<>> /\ calls = <<>>

CallSignaturePubKey ==
    /\ pc = "call"
    /\ sGFromMsg' = ComputeSignaturePubKey(pubKey, rPoint, message)
    /\ pc' = "returned"
    /\ UNCHANGED <<privKey, oneTimeSigningKey, message, pubKey, rPoint, sig,
                   sGFromSig, message2, sig2, msgVars, concVars>>

NextPub == CallSignaturePubKey

SpecPub == InitPub /\ [][NextPub]_vars

\* ---- the oracle encoding a numeric outcome
InitMsg ==
    /\ pc = "encode"
    /\ value \in Uint64
    /\ numMsg = <<>>
    /\ privKey = ZeroBytes(KeyLen) /\ oneTimeSigningKey = ZeroBytes(KeyLen)
    /\ message = <<>> /\ pubKey = NoPub /\ rPoint = NoPub
    /\ sGFromMsg = NoPubRet /\ sig = NoSig /\ sGFromSig = NoPub
    /\ message2 = <<>> /\ sig2 = NoSig
    /\ mem = <<>> /\ calls = <<>>

Encode ==
    /\ pc = "encode"
    /\ numMsg' = GenerateNumericMessage(value)
    /\ pc' = "encoded"
    /\ UNCHANGED <<value, signVars, concVars>>

NextMsg == Encode

SpecMsg == InitMsg /\ [][NextMsg]_vars

\* ---- two goroutines calling into the library with one message slice
\* largest scalar the concurrent callers use
MaxConcScalar == 4
ConcScalars ==
    {b \in ByteArrays(KeyLen) : SetBytes(b) \in 0..MaxConcScalar}

Callers == {1, 2}

Fns == {"ComputeSignature", "ComputeSignaturePubKey"}

\* the arguments of a call: (privKey, oneTimeSigningKey) or (pubA, pubR)
CallArgs(fn, a, k) ==
    IF fn = "ComputeSignature" THEN <<a, k>>
    ELSE <<PublicKeyFromPrivateKey(a), PublicKeyFromPrivateKey(k)>>

NewCall(fn, a, k) ==
    [fn |-> fn, args |-> CallArgs(fn, a, k), pc |-> "start",
     tail |-> <<>>, w |-> 0, hashInput |-> <<>>, ret |-> "none"]

InitConc ==
    /\ pc = "concurrent"
    /\ privKey \in ConcScalars
    /\ message \in Messages
    /\ \E spare \in 0..MaxSpare : mem = message \o ZeroBytes(spare)
    /\ calls \in {[i \in Callers |-> NewCall(f[i], privKey, k[i])] :
                    f \in [Callers -> Fns], k \in [Callers -> ConcScalars]}
    /\ oneTimeSigningKey = ZeroBytes(KeyLen)
    /\ pubKey = NoPub /\ rPoint = NoPub
    /\ sGFromMsg = NoPubRet /\ sig = NoSig /\ sGFromSig = NoPub
    /\ message2 = <<>> /\ sig2 = NoSig
    /\ value = 0 /\ numMsg = <<>>

\* the return of call c if it stops before building the hash input
\* (lines 62-70 and 106-121); its err is "nil" when the call goes on
EarlyReturn(c) ==
    IF c.fn = "ComputeSignature"
    THEN LET chk == CheckScalars(SetBytes(c.args[1]), SetBytes(c.args[2]))
         IN SigReturn(ZeroBytes(KeyLen), chk, ZeroBytes(KeyLen),
                      c.args[2], SetBytes(c.args[1]), SetBytes(c.args[2]))
    ELSE LET A == ParsePubKey(c.args[1])
             R == ParsePubKey(c.args[2])
         IN [val |-> ZeroBytes(PubKeyLen),
             err |-> IF A.err # "nil" THEN A.err ELSE R.err]

\* Rx.Bytes() / R.X.Bytes(), the bytes call c appends to the message
RxBytes(c) ==
    IF c.fn = "ComputeSignature"
    THEN Bytes(ScalarBaseMult(c.args[2]).X)
    ELSE Bytes(ParsePubKey(c.args[2]).X)

\* lines 57-70 / 101-125: up to the append
Enter(i) ==
    /\ calls[i].pc = "start"
    /\ LET c == calls[i]
           early == EarlyReturn(c)
       IN calls' = [calls EXCEPT ![i] =
            IF early.err # "nil"
            THEN [c EXCEPT !.pc = "done", !.ret = early]
            ELSE [c EXCEPT !.pc = "append", !.tail = RxBytes(c)]]
    /\ UNCHANGED <<pc, mem, signVars, msgVars>>

\* append with len + n <= cap: the tail is written, byte by byte, into the
\* caller's backing array behind the message
AppendInPlace(i) ==
    /\ calls[i].pc = "append"
    /\ Len(message) + Len(calls[i].tail) <= Len(mem)
    /\ LET c == calls[i]
           w1 == c.w + 1
       IN /\ mem' = [mem EXCEPT ![Len(message) + w1] = c.tail[w1]]
          /\ calls' = [calls EXCEPT ![i] =
                [c EXCEPT !.w = w1,
                          !.pc = IF w1 = Len(c.tail) THEN "hash" ELSE "append"]]
    /\ UNCHANGED <<pc, signVars, msgVars>>

\* append with len + n > cap: a fresh array receives message and tail
AppendGrow(i) ==
    /\ calls[i].pc = "append"
    /\ Len(message) + Len(calls[i].tail) > Len(mem)
    /\ calls' = [calls EXCEPT ![i] =
            [calls[i] EXCEPT !.pc = "hash", !.w = Len(calls[i].tail),
                 !.hashInput = SubSeq(mem, 1, Len(message)) \o calls[i].tail]]
    /\ UNCHANGED <<pc, mem, signVars, msgVars>>

\* the bytes the hash reads: the private array, or the shared one
HashInputOf(c) ==
    IF Len(message) + Len(c.tail) <= Len(mem)
    THEN SubSeq(mem, 1, Len(message) + Len(c.tail))
    ELSE c.hashInput

\* lines 75-95 / 135-170: hash what the slice holds now, finish, return
HashAndReturn(i) ==
    /\ calls[i].pc = "hash"
    /\ LET c == calls[i]
           h == HashInputOf(c)
       IN calls' = [calls EXCEPT ![i] =
            [c EXCEPT !.pc = "done", !.hashInput = h, !.ret =
                IF c.fn = "ComputeSignature"
                THEN SignatureFromHashInput(ZeroBytes(KeyLen), c.args[2],
                         SetBytes(c.args[1]), SetBytes(c.args[2]), h)
                ELSE SignaturePubKeyFromHashInput(ParsePubKey(c.args[1]),
                         ParsePubKey(c.args[2]), h)]]
    /\ UNCHANGED <<pc, mem, signVars, msgVars>>

NextConc ==
    \E i \in Callers :
        Enter(i) \/ AppendInPlace(i) \/ AppendGrow(i) \/ HashAndReturn(i)

SpecConc == InitConc /\ [][NextConc]_vars

\* ================================================================ claims
\* a private scalar or nonce is valid when 0 < scalar < N
ValidScalar(b) == SetBytes(b) > 0 /\ SetBytes(b) < CurveN

\* big-endian encoding of n in exactly len bytes
BigEndian(n, len) ==
    [i \in 1..len |-> (n \div Pow(ByteBase, len - i)) % ByteBase]

\* the compressed encodings of the points of the curve
CurvePoints ==
    {p \in (0..(CurveP - 1)) \X (0..(CurveP - 1)) :
        (p[2] * p[2] - p[1] * p[1] * p[1] - CurveB) % CurveP = 0}
ValidEncodings ==
    {<<2 + (p[2] % 2)>> \o BigEndian(p[1], KeyLen) : p \in CurvePoints}

InvalidScalarErrs ==
    {"priv scalar is zero", "priv scalar is out of bounds",
     "k scalar is zero", "k scalar is out of bounds"}

InvalidPublicKeyErrs ==
    {"invalid magic in compressed pubkey string",
     "ybit doesn't match oddness", "pubkey X parameter is >= to P",
     "pubkey Y parameter is >= to P", "pubkey isn't on secp256k1 curve"}

\* the challenge as anyone computes it from the published R point
PublicChallenge(R, m) ==
    SetBytes(HashB(m \o Bytes(SetBytes(SubSeq(R, 2, PubKeyLen)))))

ScalarInv(x) == ModExp(x % CurveN, CurveN - 2, CurveN)

Signed == pc \in {"settle", "panic", "reuse", "done"}

\* C1: whenever ComputeSignature(a, k, m) succeeds with s, the anticipated
\* point computed from a*G, k*G and m is returned without error and equals
\* PublicKeyFromPrivateKey(s).
EquivalenceLaw ==
    (pc \in {"reuse", "done"} /\ sig.err = "nil")
        => /\ sGFromMsg.err = "nil"
           /\ sGFromMsg.val = sGFromSig
           /\ sGFromSig \in ValidEncodings

EquivalenceWitness ==
    /\ pc = "reuse" /\ sig.err = "nil"
    /\ PublicChallenge(rPoint, message) > 1
    /\ sGFromMsg.val = sGFromSig
    /\ sGFromSig # rPoint

\* C2: ComputeSignature returns an invalid-scalar error and the all-zero
\* array whenever a = 0, a >= N, k = 0 or k >= N, for every message.
InvalidScalarRejected ==
    (Signed /\ (~ValidScalar(privKey) \/ ~ValidScalar(oneTimeSigningKey)))
        => /\ sig.err \in InvalidScalarErrs
           /\ sig.s = ZeroBytes(KeyLen)

InvalidScalarWitness ==
    /\ pc = "panic"
    /\ ValidScalar(privKey)
    /\ SetBytes(oneTimeSigningKey) = CurveN
    /\ sig.err = "k scalar is out of bounds"

PublicKeyRejectsInvalidScalar ==
    (pc # "keys" /\ ~ValidScalar(privKey)) => pubKey = ZeroBytes(PubKeyLen)

\* C5: ComputeSignaturePubKey returns an invalid-public-key error and the
\* all-zero array whenever A or R is not the compressed encoding of a curve
\* point, whatever the challenge would have been.
InvalidPublicKeyRejected ==
    (pc = "returned" /\ (pubKey \notin ValidEncodings \/ rPoint \notin ValidEncodings))
        => /\ sGFromMsg.err \in InvalidPublicKeyErrs
           /\ sGFromMsg.val = ZeroBytes(PubKeyLen)

\* A is a point, R carries the prefix byte 4
InvalidPublicKeyWitness ==
    /\ pc = "returned"
    /\ pubKey \in ValidEncodings
    /\ rPoint[1] = 4
    /\ <<2>> \o SubSeq(rPoint, 2, PubKeyLen) \in ValidEncodings
    /\ sGFromMsg.err = "invalid magic in compressed pubkey string"

\* C6: GenerateNumericMessage(v) is 4 words long, its first three words are
\* zero and its last word is v big-endian, so v is read back from it.
NumericMessageEncoding ==
    pc = "encoded"
        => /\ Len(numMsg) = 4 * Uint64Len
           /\ \A i \in 1..(3 * Uint64Len) : numMsg[i] = 0
           /\ SetBytes(SubSeq(numMsg, 3 * Uint64Len + 1, 4 * Uint64Len)) = value
           /\ (value = 0 => numMsg = ZeroBytes(4 * Uint64Len))
           /\ (value = Pow(ByteBase, Uint64Len) - 1 =>
                 \A i \in (3 * Uint64Len + 1)..(4 * Uint64Len) :
                    numMsg[i] = ByteBase - 1)

NumericMessageWitness ==
    /\ pc = "encoded"
    /\ value = Pow(ByteBase, Uint64Len) - 2
    /\ numMsg[4 * Uint64Len] = ByteBase - 2
    /\ numMsg[3 * Uint64Len + 1] = ByteBase - 1

SecretsZeroedOnEveryExit ==
    Signed
        => /\ sig.privKey = ZeroBytes(KeyLen)
           /\ sig.oneTimeSigningKey = ZeroBytes(KeyLen)
           /\ sig.bigPriv = 0
           /\ sig.bigK = 0

\* C10: for valid a and k, ComputeSignaturePubKey(a*G, k*G, m) fails
\* exactly when ComputeSignature(a, k, m) fails, and what it returns
\* without error is the encoding of a curve point.
PathsAgreeOnFailure ==
    (Signed /\ ValidScalar(privKey) /\ ValidScalar(oneTimeSigningKey))
        => /\ (sGFromMsg.err = "nil") <=> (sig.err = "nil")
           /\ (sGFromMsg.err = "nil") => sGFromMsg.val \in ValidEncodings

\* what call c returns when it runs alone
AloneReturn(c) ==
    IF c.fn = "ComputeSignature"
    THEN ComputeSignature(c.args[1], c.args[2], message)
    ELSE ComputeSignaturePubKey(c.args[1], c.args[2], message)

\* C7: under every interleaving of concurrent calls, also ones handed the
\* same message slice with spare capacity, each call returns what it
\* returns when run alone.
ConcurrentCallsIndependent ==
    \A i \in Callers :
        calls[i].pc = "done" => calls[i].ret = AloneReturn(calls[i])

====
